---- MODULE Spec2Model ----
(***************************************************************************)
(* Model of app.py: a Streamlit page that lists the CSV files of a GitHub  *)
(* repository, ingests the selected ones into one table (master_data) and  *)
(* shows the point nearest to the browser's GPS position.                  *)
(*                                                                         *)
(* A Streamlit script is executed top to bottom once at session start and  *)
(* once more after every widget event; the widgets' values (text input,    *)
(* multiselect, geolocation component) and the st.cache_data cache are the *)
(* only state that survives from one execution to the next.  Every action  *)
(* below is therefore "one event + one complete execution of the script".  *)
(***************************************************************************)
EXTENDS Integers, Sequences, FiniteSets, TLC

(***************************************************************************)
(* Bounds of the model.                                                    *)
(***************************************************************************)
\* largest number of data rows in the CSV files of the remote repository, all
\* files together
MaxRows == 3

(***************************************************************************)
(* Cell values.  A cell is a number, a text, NaN (pandas' missing value)   *)
(* or None (a widget that has no value yet).                               *)
(***************************************************************************)
Num(n) == [k |-> "num", n |-> n, s |-> ""]

Text(s) == [k |-> "text", n |-> 0, s |-> s]

NaN == [k |-> "nan", n |-> 0, s |-> ""]

None == [k |-> "none", n |-> 0, s |-> ""]

\* Python truthiness of a widget value: None and 0 are false
Truthy(v) == v.k = "num" /\ v.n # 0

(***************************************************************************)
(* Haversine distance, calculate_distance.  The coordinates of the model   *)
(* are multiples of 60 degrees, where the haversine term a is an exact     *)
(* multiple of 1/16: a = (4*S(dphi) + C(phi1)*C(phi2)*S(dlambda)) / 16     *)
(* with S(x) = 4*sin^2(x/2) and C(x) = 2*cos(x).                           *)
(***************************************************************************)
Abs(x) == IF x < 0 THEN -x ELSE x

\* 4 * sin(radians(deg) / 2) ** 2 for deg a multiple of 60
Sin2Half4(deg) ==
    LET m == Abs(deg) % 360
    IN  CASE m = 0 -> 0
          [] m = 60 -> 1
          [] m = 120 -> 3
          [] m = 180 -> 4
          [] m = 240 -> 3
          [] m = 300 -> 1

\* 2 * cos(radians(deg)) for deg a multiple of 60
Cos2(deg) ==
    LET m == Abs(deg) % 360
    IN  CASE m = 0 -> 2
          [] m = 60 -> 1
          [] m = 120 -> -1
          [] m = 180 -> -2
          [] m = 240 -> -1
          [] m = 300 -> 1

\* 16 * a of the haversine formula
HavA16(lat1, lon1, lat2, lon2) ==
    4 * Sin2Half4(lat2 - lat1) + Cos2(lat1) * Cos2(lat2) * Sin2Half4(lon2 - lon1)

\* round(R * 2 * atan2(sqrt(a), sqrt(1 - a))) in metres, for a = a16 / 16 and
\* the Earth radius R = 6371e3
ArcMetres(a16) ==
    LET t == << 0, 3219652, 4604540, 5706280, 6671696, 7558552, 8397717,
                9209080, 10007543, 10806007, 11617369, 12456535, 13343391,
                14308806, 15410547, 16795435, 20015087 >>
    IN  t[a16 + 1]

calculate_distance(lat1, lon1, lat2, lon2) ==
    ArcMetres(HavA16(lat1, lon1, lat2, lon2))

(***************************************************************************)
(* The remote repository: the answer of the GitHub contents API and the    *)
(* CSV files behind the raw URLs.                                          *)
(***************************************************************************)
FileA == [name |-> "a.csv", suffix |-> ".csv"]

FileB == [name |-> "b.csv", suffix |-> ".csv"]

FileNotes == [name |-> "notes.txt", suffix |-> ".txt"]

CsvNames == {"a.csv", "b.csv"}

\* answers of GET /repos/o/r/contents/data
ListingFull == [status |-> "ok", payload |-> "list", entries |-> <<FileA, FileNotes, FileB>>]

ListingNoCsv == [status |-> "ok", payload |-> "list", entries |-> <<FileNotes>>]

\* connection error, or an HTTP error status turned into HTTPError by raise_for_status
ListingUnreachable == [status |-> "error", payload |-> "none", entries |-> <<>>]

\* a JSON object instead of a list of entries (e.g. "data" is a file, not a directory)
ListingObject == [status |-> "ok", payload |-> "object", entries |-> <<>>]

\* a body that is not JSON: response.json() raises requests' JSONDecodeError
ListingNotJson == [status |-> "ok", payload |-> "invalid", entries |-> <<>>]

Listings == {ListingFull, ListingNoCsv, ListingUnreachable, ListingObject, ListingNotJson}

\* rows a CSV file may hold (columns Line, Lat, Lon)
Row(line, lat, lon) == [Line |-> Text(line), Lat |-> lat, Lon |-> lon]

RowSet ==
    { Row("A", Num(60), Num(0)),
      Row("B", Num(60), Num(120)),
      Row("C", Num(120), Num(0)),
      Row("D", Text("not_a_number"), Num(0)),
      Row("E", Num(60), NaN) }

RECURSIVE SeqsUpTo(_, _)
SeqsUpTo(S, n) ==
    IF n = 0 THEN {<<>>}
    ELSE LET shorter == SeqsUpTo(S, n - 1)
         IN  shorter \cup {Append(q, x) : q \in {p \in shorter : Len(p) = n - 1}, x \in S}

FullColumns == {"Line", "Lat", "Lon"}

\* what pd.read_csv finds behind a raw URL
TableUnreadable == [readable |-> FALSE, columns |-> {}, rows |-> <<>>]

TableNoLon == [readable |-> TRUE, columns |-> {"Line", "Lat"},
               rows |-> << [Line |-> Text("F"), Lat |-> Num(60)] >>]

TableNoCoords == [readable |-> TRUE, columns |-> {"Line"},
                  rows |-> << [Line |-> Text("G")] >>]

Tables ==
    {[readable |-> TRUE, columns |-> FullColumns, rows |-> q] : q \in SeqsUpTo(RowSet, MaxRows)}
        \cup {TableUnreadable, TableNoLon, TableNoCoords}

EmptyTable == [readable |-> TRUE, columns |-> FullColumns, rows |-> <<>>]

(***************************************************************************)
(* Repository URLs the user may type, as their "/"-separated segments.     *)
(***************************************************************************)
UrlDefault == <<"https:", "", "github.com", "USERNAME", "REPO">>

UrlGood == <<"https:", "", "github.com", "o", "r">>

UrlNoRepo == <<"https:", "", "github.com", "o">>

UrlEmpty == <<>>

Urls == {UrlDefault, UrlGood, UrlNoRepo, UrlEmpty}

\* observer positions the geolocation component may deliver
Position(la, lo) == [latitude |-> Num(la), longitude |-> Num(lo)]

Positions == {Position(60, 60), Position(0, 60), Position(60, 0)}

NoLocation == [latitude |-> None, longitude |-> None]

VARIABLES
    listing,          \* remote: the answer of the contents API for UrlGood
    files,            \* remote: file name -> table behind its raw URL
    repo_url,         \* value of the text input
    cache,            \* st.cache_data of get_csv_files_from_github: URL -> entry
    csv_files,        \* names returned by get_csv_files_from_github in the last run
    selected_files,   \* value of the multiselect in the last run
    location,         \* value of the geolocation component in the last run
    errors,           \* st.error messages of the last run
    warnings,         \* st.warning messages of the last run (file names)
    fetched,          \* raw URLs read by pd.read_csv in the last run (file names)
    all_data_frames,  \* the list built by the ingestion loop in the last run
    built,            \* TRUE iff the last run executed pd.concat (line 87)
    master_data,      \* the concatenated table at the end of the last run
    nearest_point,    \* the results shown by the last run (at most one)
    zoom_start,       \* zoom of the map of the last run, 0 if no map was made
    crashed           \* where the last run died of an uncaught exception

vars == << listing, files, repo_url, cache, csv_files, selected_files, location,
           errors, warnings, fetched, all_data_frames, built, master_data,
           nearest_point, zoom_start, crashed >>

(***************************************************************************)
(* get_csv_files_from_github (lines 15-35).                                *)
(***************************************************************************)
\* re.search(r"github\.com/([^/]+)/([^/]+)", repo_url): the positions of the
\* host segment of every match
GithubMatches(url) ==
    {i \in 1..Len(url) : /\ i + 2 <= Len(url)
                         /\ url[i] = "github.com"
                         /\ url[i + 1] # ""
                         /\ url[i + 2] # ""}

\* "USERNAME" in repo_url
ContainsUsername(url) == \E i \in 1..Len(url) : url[i] = "USERNAME"

\* requests.get(api_url): only the repository o/r exists
ApiAnswer(owner, repo, lst) ==
    IF owner = "o" /\ repo = "r" THEN lst ELSE ListingUnreachable

\* [file['name'] for file in contents if file['name'].endswith('.csv')]
CsvNamesOf(entries) ==
    LET csv == SelectSeq(entries, LAMBDA e : e.suffix = ".csv")
    IN  [i \in 1..Len(csv) |-> csv[i].name]

\* the body of the function: what it returns, the st.error it shows, and
\* whether it raises instead of returning
ListBody(url, lst) ==
    LET m == GithubMatches(url)
    IN  IF m = {}
        THEN [files |-> <<>>, errs |-> <<"InvalidUrl">>, raised |-> FALSE]
        ELSE LET i == CHOOSE j \in m : \A j2 \in m : j <= j2
                 resp == ApiAnswer(url[i + 1], url[i + 2], lst)
             IN  CASE resp.status = "error" \/ resp.payload = "invalid" ->
                        \* except requests.exceptions.RequestException
                        [files |-> <<>>, errs |-> <<"ListingFailed">>, raised |-> FALSE]
                   [] resp.status = "ok" /\ resp.payload = "object" ->
                        \* file['name'] on a str: TypeError, which nothing catches
                        [files |-> <<>>, errs |-> <<>>, raised |-> TRUE]
                   [] resp.status = "ok" /\ resp.payload = "list" ->
                        [files |-> CsvNamesOf(resp.entries), errs |-> <<>>, raised |-> FALSE]

CacheMiss == [hit |-> FALSE, files |-> <<>>, errs |-> <<>>]

\* the function under @st.cache_data(ttl=600): a hit returns the stored value
\* and replays the stored st.error; a call that raises stores nothing.  The
\* remote listing does not change during a session, so an entry refreshed
\* after its ttl equals the one it replaces and the ttl is left out.
get_csv_files_from_github(url, lst, cch) ==
    IF cch[url].hit
    THEN [files |-> cch[url].files, errs |-> cch[url].errs, raised |-> FALSE, cache |-> cch]
    ELSE LET b == ListBody(url, lst)
         IN  [files |-> b.files, errs |-> b.errs, raised |-> b.raised,
              cache |-> IF b.raised THEN cch
                        ELSE [cch EXCEPT ![url] = [hit |-> TRUE, files |-> b.files,
                                                   errs |-> b.errs]]]

(***************************************************************************)
(* The ingestion loop (lines 69-84) and pd.concat (line 87).               *)
(***************************************************************************)
EmptyFrame == [columns |-> {}, rows |-> <<>>]

\* pd.to_numeric(value, errors='coerce')
to_numeric(v) == IF v.k = "num" THEN v ELSE NaN

\* df[c] = pd.to_numeric(df[c], errors='coerce')
CoerceColumn(df, c) ==
    [df EXCEPT !.rows = [i \in 1..Len(df.rows) |->
                            [df.rows[i] EXCEPT ![c] = to_numeric(df.rows[i][c])]]]

\* df.dropna(subset=cols, inplace=True)
dropna(df, cols) ==
    [df EXCEPT !.rows = SelectSeq(df.rows, LAMBDA r : \A c \in cols : r[c].k # "nan")]

\* the body of the try block for one file: the frame appended, or the failure
IngestFile(tbl) ==
    IF ~tbl.readable THEN [ok |-> FALSE, frame |-> EmptyFrame]
    ELSE IF "Lat" \notin tbl.columns THEN [ok |-> FALSE, frame |-> EmptyFrame]
    ELSE IF "Lon" \notin tbl.columns THEN [ok |-> FALSE, frame |-> EmptyFrame]
    ELSE LET df == [columns |-> tbl.columns, rows |-> tbl.rows]
         IN  [ok |-> TRUE,
              frame |-> dropna(CoerceColumn(CoerceColumn(df, "Lat"), "Lon"), {"Lat", "Lon"})]

\* variant of the loop in which the first failing file ends the batch
RECURSIVE IngestLoopAbort(_, _, _, _)
IngestLoopAbort(sel, fls, i, acc) ==
    IF i > Len(sel) THEN acc
    ELSE LET r == IngestFile(fls[sel[i]])
         IN  IF r.ok
             THEN IngestLoopAbort(sel, fls, i + 1,
                      [frames |-> Append(acc.frames, r.frame),
                       warnings |-> acc.warnings,
                       fetched |-> Append(acc.fetched, sel[i])])
             ELSE [frames |-> acc.frames,
                   warnings |-> Append(acc.warnings, sel[i]),
                   fetched |-> Append(acc.fetched, sel[i])]

\* for file_name in selected_files: try ... except Exception: st.warning(...)
RECURSIVE IngestLoop(_, _, _, _)
IngestLoop(sel, fls, i, acc) ==
    IF i > Len(sel) THEN acc
    ELSE LET r == IngestFile(fls[sel[i]])
         IN  IngestLoop(sel, fls, i + 1,
                 [frames |-> IF r.ok THEN Append(acc.frames, r.frame) ELSE acc.frames,
                  warnings |-> IF r.ok THEN acc.warnings ELSE Append(acc.warnings, sel[i]),
                  fetched |-> Append(acc.fetched, sel[i])])

\* pd.concat(frames, ignore_index=True): the rows of the frames one after the
\* other, labelled by position, over the union of the columns (NaN where a
\* frame lacks a column)
RECURSIVE ConcatRows(_, _, _)
ConcatRows(frames, cols, i) ==
    IF i > Len(frames) THEN <<>>
    ELSE LET f == frames[i]
             widened == [j \in 1..Len(f.rows) |->
                            [c \in cols |-> IF c \in f.columns THEN f.rows[j][c] ELSE NaN]]
         IN  widened \o ConcatRows(frames, cols, i + 1)

\* variant of concat that stacks the frames last to first
concatReversed(frames) ==
    LET cols == UNION {frames[i].columns : i \in 1..Len(frames)}
        rev == [i \in 1..Len(frames) |-> frames[Len(frames) + 1 - i]]
    IN  [columns |-> cols, rows |-> ConcatRows(rev, cols, 1)]

concat(frames) ==
    LET cols == UNION {frames[i].columns : i \in 1..Len(frames)}
    IN  [columns |-> cols, rows |-> ConcatRows(frames, cols, 1)]

(***************************************************************************)
(* The nearest-point query (lines 120-123).                                *)
(***************************************************************************)
\* master_data.apply(lambda row: calculate_distance(...), axis=1)
DistanceColumn(df, user_lat, user_lon) ==
    [i \in 1..Len(df.rows) |->
        Num(calculate_distance(user_lat, user_lon, df.rows[i]["Lat"].n, df.rows[i]["Lon"].n))]

\* master_data['distance_to_user'] = column: adds the column, or overwrites it
SetColumn(df, c, col) ==
    [columns |-> df.columns \cup {c},
     rows |-> [i \in 1..Len(df.rows) |->
                  [x \in df.columns \cup {c} |-> IF x = c THEN col[i] ELSE df.rows[i][x]]]]

\* Series.idxmin(): the label of the first occurrence of the minimum
RECURSIVE ArgMinFrom(_, _, _)
ArgMinFrom(col, i, best) ==
    IF i > Len(col) THEN best
    ELSE ArgMinFrom(col, i + 1, IF col[i].n < col[best].n THEN i ELSE best)

\* variant of idxmin that keeps the last occurrence of the minimum
RECURSIVE ArgMinLastFrom(_, _, _)
ArgMinLastFrom(col, i, best) ==
    IF i > Len(col) THEN best
    ELSE ArgMinLastFrom(col, i + 1, IF col[i].n <= col[best].n THEN i ELSE best)

idxminLast(col) == ArgMinLastFrom(col, 2, 1)

idxmin(col) == ArgMinFrom(col, 2, 1)

(***************************************************************************)
(* Map and nearest point (lines 91-129), once master_data exists.          *)
(* Row labels are 1..n here where pandas counts 0..n-1.                    *)
(***************************************************************************)
MapAndQuery(md, loc) ==
    IF Truthy(loc.latitude) /\ Truthy(loc.longitude)
    THEN IF Len(md.rows) = 0
         THEN \* apply() on an empty table yields no column and the assignment
              \* of line 120 raises ValueError
              [master |-> md, nearest |-> <<>>, zoom |-> 15, crashed |-> "query"]
         ELSE LET col == DistanceColumn(md, loc.latitude.n, loc.longitude.n)
                  withcol == SetColumn(md, "distance_to_user", col)
                  lbl == idxmin(col)
              IN  [master |-> withcol,
                   nearest |-> << [label |-> lbl, record |-> withcol.rows[lbl]] >>,
                   zoom |-> 15, crashed |-> "none"]
    ELSE IF Len(md.rows) = 0
         THEN \* the mean of an empty column is NaN and folium.Map rejects it
              [master |-> md, nearest |-> <<>>, zoom |-> 12, crashed |-> "map"]
         ELSE [master |-> md, nearest |-> <<>>, zoom |-> 12, crashed |-> "none"]

(***************************************************************************)
(* One execution of the script (lines 53-134).  prev_csv and prev_sel are  *)
(* the options and the value of the multiselect of the previous run: the   *)
(* widget keeps its value while its options stay the same and starts from  *)
(* its default otherwise.  loc is the value of the geolocation component.  *)
(***************************************************************************)
Blank(cch) ==
    [cache |-> cch, csv_files |-> <<>>, selected |-> <<>>, location |-> NoLocation,
     errors |-> <<>>, warnings |-> <<>>, fetched |-> <<>>, frames |-> <<>>,
     built |-> FALSE, master |-> EmptyFrame, nearest |-> <<>>, zoom |-> 0,
     crashed |-> "none"]

Script(url, prev_csv, prev_sel, loc, lst, fls, cch) ==
    IF url = <<>> \/ ContainsUsername(url) THEN Blank(cch)
    ELSE
    LET g == get_csv_files_from_github(url, lst, cch)
    IN  IF g.raised THEN [Blank(g.cache) EXCEPT !.crashed = "listing"]
        ELSE
        LET b1 == [Blank(g.cache) EXCEPT !.errors = g.errs, !.csv_files = g.files]
        IN  IF g.files = <<>> THEN b1
            ELSE
            LET sel == IF prev_csv = g.files THEN prev_sel ELSE << g.files[1] >>
                b2 == [b1 EXCEPT !.selected = sel]
            IN  IF sel = <<>> THEN b2
                ELSE
                LET ing == IngestLoop(sel, fls, 1,
                               [frames |-> <<>>, warnings |-> <<>>, fetched |-> <<>>])
                    b3 == [b2 EXCEPT !.warnings = ing.warnings, !.fetched = ing.fetched,
                                     !.frames = ing.frames]
                IN  IF ing.frames = <<>> THEN b3
                    ELSE
                    LET q == MapAndQuery(concat(ing.frames), loc)
                    IN  [b3 EXCEPT !.built = TRUE, !.location = loc, !.master = q.master,
                                   !.nearest = q.nearest, !.zoom = q.zoom,
                                   !.crashed = q.crashed]

\* the new state after an execution that produced out
Shown(out) ==
    /\ cache' = out.cache
    /\ csv_files' = out.csv_files
    /\ selected_files' = out.selected
    /\ location' = out.location
    /\ errors' = out.errors
    /\ warnings' = out.warnings
    /\ fetched' = out.fetched
    /\ all_data_frames' = out.frames
    /\ built' = out.built
    /\ master_data' = out.master
    /\ nearest_point' = out.nearest
    /\ zoom_start' = out.zoom
    /\ crashed' = out.crashed

\* the geolocation component is on the page iff line 91 was reached
GeoShown == all_data_frames # <<>>

\* the value the component reports to the next run
GeoValue == IF GeoShown THEN location ELSE NoLocation

\* the values a multiselect over opts can take, in the order of selection
Selections(opts) ==
    {q \in SeqsUpTo({opts[i] : i \in 1..Len(opts)}, Len(opts)) :
        \A i, j \in 1..Len(q) : i # j => q[i] # q[j]}

(***************************************************************************)
(* Initial state: the first execution, with the placeholder URL of the     *)
(* text input, shows nothing.  The remote repository is arbitrary.         *)
(***************************************************************************)
Init ==
    /\ listing \in Listings
    /\ \E ta \in Tables :
          \E tb \in {t \in Tables : Len(ta.rows) + Len(t.rows) <= MaxRows} :
              files = IF listing = ListingFull
                      THEN [f \in CsvNames |-> IF f = "a.csv" THEN ta ELSE tb]
                      ELSE [f \in CsvNames |-> EmptyTable]
    /\ repo_url = UrlDefault
    /\ cache = [u \in Urls |-> CacheMiss]
    /\ csv_files = <<>>
    /\ selected_files = <<>>
    /\ location = NoLocation
    /\ errors = <<>>
    /\ warnings = <<>>
    /\ fetched = <<>>
    /\ all_data_frames = <<>>
    /\ built = FALSE
    /\ master_data = EmptyFrame
    /\ nearest_point = <<>>
    /\ zoom_start = 0
    /\ crashed = "none"

\* the user edits the repository URL
OnRepoUrl(u) ==
    /\ u # repo_url
    /\ repo_url' = u
    /\ \E out \in {Script(u, csv_files, selected_files, GeoValue, listing, files, cache)} :
          Shown(out)
    /\ UNCHANGED << listing, files >>

\* the user changes the multiselect
OnSelect(sel) ==
    /\ csv_files # <<>>
    /\ sel # selected_files
    /\ \E out \in {Script(repo_url, csv_files, sel, GeoValue, listing, files, cache)} :
          Shown(out)
    /\ UNCHANGED << listing, files, repo_url >>

\* the geolocation component delivers a position
OnLocation(p) ==
    /\ GeoShown
    /\ \E out \in {Script(repo_url, csv_files, selected_files, p, listing, files, cache)} :
          Shown(out)
    /\ UNCHANGED << listing, files, repo_url >>

Next ==
    \/ \E u \in Urls : OnRepoUrl(u)
    \/ \E sel \in Selections(csv_files) : OnSelect(sel)
    \/ \E p \in Positions : OnLocation(p)

Spec == Init /\ [][Next]_vars

(***************************************************************************)
(* Vocabulary of the properties, stated on the remote repository itself.   *)
(***************************************************************************)
\* the source cannot be read, or lacks a coordinate column
SourceFails(f) ==
    \/ ~files[f].readable
    \/ "Lat" \notin files[f].columns
    \/ "Lon" \notin files[f].columns

\* the rows of a source with a number in both coordinate columns
SurvivingRows(f) ==
    SelectSeq(files[f].rows, LAMBDA r : r.Lat.k = "num" /\ r.Lon.k = "num")

\* the selected sources that do not fail, and those that do, in selection order
OkFiles == SelectSeq(selected_files, LAMBDA f : ~SourceFails(f))

FailedFiles == SelectSeq(selected_files, LAMBDA f : SourceFails(f))

\* number of surviving rows of the first k sources that do not fail
RECURSIVE SurvivorsBefore(_)
SurvivorsBefore(k) ==
    IF k = 0 THEN 0 ELSE SurvivorsBefore(k - 1) + Len(SurvivingRows(OkFiles[k]))

\* the source the i-th record of the index was read from
OriginOf(i) ==
    LET k == CHOOSE m \in 1..Len(OkFiles) : SurvivorsBefore(m - 1) < i /\ i <= SurvivorsBefore(m)
    IN  OkFiles[k]

\* a record of the index without the columns the page added
SourceColumns(r) == [c \in FullColumns |-> r[c]]

IndexSize == Len(master_data.rows)

\* the last run received a position from the geolocation component
PositionArrived == location \in Positions

\* distance from the observer to the i-th record of the index
DistanceTo(i) ==
    calculate_distance(location.latitude.n, location.longitude.n,
                       master_data.rows[i]["Lat"].n, master_data.rows[i]["Lon"].n)

(***************************************************************************)
(* Properties.                                                             *)
(***************************************************************************)
\* C1: every record of the index has a latitude in [-90, 90] and a longitude
\* in [-180, 180], both numbers.  Fails: a row with Lat = 120 is kept, since
\* the loop only drops rows whose coordinate is NaN.
C1_IndexCoordinatesInDomain ==
    built =>
        \A i \in 1..IndexSize :
            LET r == master_data.rows[i]
            IN  /\ r["Lat"].k = "num" /\ r["Lat"].n >= -90 /\ r["Lat"].n <= 90
                /\ r["Lon"].k = "num" /\ r["Lon"].n >= -180 /\ r["Lon"].n <= 180

\* C2: a position that arrives while the index is empty ends without a result
\* and without a crash.  Stated for the positions the page takes for a
\* position (both coordinates non-zero, see C6).  Fails: line 120 raises on the
\* empty table and nothing catches it.
C2_EmptyIndexGivesNoData ==
    (built /\ IndexSize = 0 /\ PositionArrived
           /\ location.latitude.n # 0 /\ location.longitude.n # 0) =>
        (crashed = "none" /\ nearest_point = <<>>)

\* C3: a source that cannot be read or lacks Lat/Lon contributes no record and
\* gets exactly one warning, and every other selected source, before or after
\* it, is read and contributes all of its valid rows.
C3_SourceFailuresAreIsolated ==
    /\ fetched = selected_files
    /\ warnings = FailedFiles
    /\ Len(all_data_frames) = Len(OkFiles)
    /\ \A k \in 1..Len(all_data_frames) :
           all_data_frames[k].rows = SurvivingRows(OkFiles[k])
    /\ built => IndexSize = SurvivorsBefore(Len(OkFiles))

\* C3 witness: a failing source selected first, and a later source ingested
\* with at least one row
C3_Witness ==
    /\ Len(selected_files) = 2
    /\ SourceFails(selected_files[1])
    /\ ~SourceFails(selected_files[2])
    /\ built
    /\ IndexSize > 0

\* C4: the query returns the record at the lowest position among those at the
\* minimum distance, with that distance; no record is strictly closer.
C4_NearestIsFirstMinimum ==
    \A q \in 1..Len(nearest_point) :
        LET lbl == nearest_point[q].label
        IN  /\ lbl \in 1..IndexSize
            /\ nearest_point[q].record = master_data.rows[lbl]
            /\ nearest_point[q].record["distance_to_user"] = Num(DistanceTo(lbl))
            /\ \A j \in 1..IndexSize : DistanceTo(j) >= DistanceTo(lbl)
            /\ \A j \in 1..(lbl - 1) : DistanceTo(j) > DistanceTo(lbl)

\* C4 witness: a tie at the minimum, won by a record that is not the first of
\* the index
C4_Witness ==
    /\ Len(nearest_point) = 1
    /\ nearest_point[1].label > 1
    /\ \E j \in 1..IndexSize :
           j > nearest_point[1].label /\ DistanceTo(j) = DistanceTo(nearest_point[1].label)

\* C5: a query leaves the index as it was built: same records, same order,
\* same columns.  Fails: the query writes the column distance_to_user into
\* master_data.
C5_QueryLeavesIndexUnchanged ==
    built =>
        /\ master_data.columns = UNION {all_data_frames[k].columns : k \in 1..Len(all_data_frames)}
        /\ \A q \in 1..Len(nearest_point) :
               DOMAIN nearest_point[q].record = FullColumns

\* C6: with a non-empty index, every position event yields exactly one result.
\* Fails: a latitude or longitude of exactly 0 is taken for "no position".
C6_EveryPositionYieldsOneResult ==
    (built /\ IndexSize > 0 /\ PositionArrived) => Len(nearest_point) = 1

\* C7: a position event, which leaves the selected sources unchanged, re-reads
\* no source.  Fails: every event re-executes the script and with it every
\* pd.read_csv.
C7_PositionEventReadsNoSource ==
    [][(\E p \in Positions : OnLocation(p)) => fetched' = <<>>]_vars

\* C8: the index is the concatenation of the surviving rows of the sources
\* that did not fail, in selection order and in row order within a source;
\* its length is the sum of the surviving row counts.
C8_IndexIsConcatenation ==
    built =>
        /\ IndexSize = SurvivorsBefore(Len(OkFiles))
        /\ \A k \in 1..Len(OkFiles) :
               \A j \in 1..Len(SurvivingRows(OkFiles[k])) :
                   SourceColumns(master_data.rows[SurvivorsBefore(k - 1) + j])
                       = SurvivingRows(OkFiles[k])[j]

\* C8 witness: two sources, selected against the order of the listing, each
\* with surviving rows, and a row dropped
C8_Witness ==
    /\ built
    /\ selected_files = <<"b.csv", "a.csv">>
    /\ Len(OkFiles) = 2
    /\ Len(SurvivingRows("a.csv")) > 0
    /\ Len(SurvivingRows("b.csv")) > 0
    /\ IndexSize < Len(files["a.csv"].rows) + Len(files["b.csv"].rows)

\* C9: every record of the index carries the name of the source it was read
\* from.  Fails: the loop appends the frames as read, no column names the file.
C9_RecordsCarryProvenance ==
    built =>
        \E c \in master_data.columns :
            \A i \in 1..IndexSize : master_data.rows[i][c] = Text(OriginOf(i))

\* C10: a malformed or unreachable origin, or a listing that is not a list of
\* entries, ends in a reported error with nothing listed and nothing ingested;
\* an origin without CSV files ends in an empty list without error.  Fails: a
\* listing that is a JSON object raises TypeError past the except clause and
\* no error is reported.
C10_EnumerationOutcomes ==
    /\ (\/ repo_url = UrlNoRepo
        \/ repo_url = UrlGood /\ (listing.status = "error" \/ listing.payload # "list"))
           => (errors # <<>> /\ csv_files = <<>> /\ fetched = <<>> /\ warnings = <<>>)
    /\ (repo_url = UrlGood /\ listing = ListingNoCsv)
           => (errors = <<>> /\ csv_files = <<>> /\ fetched = <<>>)

====
